---- MODULE Spec2Model ----
(***************************************************************************)
(* Model of the chunk / transcribe / merge / chapter pipeline of the       *)
(* podcast scripts (scripts/split_podcast.py, scripts/transcribe_podcast.py*)
(* and scripts/generate_chapters.py).                                      *)
(*                                                                         *)
(* Times of the splitter and of the merger are integers counted in ticks,  *)
(* TicksPerSecond ticks to the second, so that a duration read from the    *)
(* media probe may fall between two whole seconds.  Python's float         *)
(* arithmetic is modelled by exact arithmetic on these integers.           *)
(***************************************************************************)
EXTENDS Integers, Sequences, FiniteSets, TLC

VARIABLES
    pc,                      \* position of the running script
    total_duration,          \* split_audio: result of get_audio_duration (ticks)
    chunk_duration_seconds,  \* split_audio: parameter L (ticks)
    overlap_seconds,         \* split_audio / process_podcast / merge_transcripts: parameter O (ticks)
    num_chunks,              \* split_audio: math.ceil(total_duration / chunk_duration_seconds)
    i,                       \* split_audio: loop index
    chunks,                  \* split_audio: list of chunk_info records
    invocations,             \* split_audio: the ffmpeg invocations made, in order, with their return code
    metadata,                \* split_audio: chunk records written to chunks_metadata.txt
    chunk_files,             \* process_podcast: sorted chunk files, each named by its chunk index
    chunks_data,             \* process_podcast / merge_transcripts: per-chunk offset and transcript
    merged_transcript,       \* merge_transcripts: result
    segments,                \* prepare_segments_for_gpt: the segment list passed in
    max_chars,               \* prepare_segments_for_gpt: the character budget
    sample_rate,             \* prepare_segments_for_gpt: the rate, a fraction num/den
    segments_text,           \* prepare_segments_for_gpt: the string returned
    sampler,                 \* prepare_segments_for_gpt: its local variables at the return
    actual_duration_seconds, \* build_chapters_prompt: parameter
    min_chapter_minutes,     \* build_chapters_prompt: parameter m
    max_chapters,            \* build_chapters_prompt: parameter X
    prompt,                  \* build_chapters_prompt: the values written into the prompt
    input_exists,            \* whether the input is there: the audio file of split_audio,
                             \* the key 'segments' of the transcript generate_chapters.py loads
    events,                  \* the external calls, delays, reports and file writes made, in order
    response,                \* generate_chapters: what the chat completion call produced
    chapters,                \* generate_chapters: the list returned
    local_files,             \* process_podcast: the files written to the chunks directory
    retries,                 \* search_itunes: parameter
    attempt,                 \* search_itunes: loop variable
    info,                    \* search_itunes: the value returned
    content,                 \* fetch_rss_feeds main: the (category, name) lines of the input file
    line_no,                 \* fetch_rss_feeds main: the number of input lines consumed
    results,                 \* fetch_rss_feeds main: the results held in memory
    saved_results,           \* fetch_rss_feeds main: the results in podcasts_with_feeds.json
    runs                     \* fetch_rss_feeds: the number of runs of the script started

vars == <<pc, total_duration, chunk_duration_seconds, overlap_seconds, num_chunks, i,
          chunks, invocations, metadata, chunk_files, chunks_data, merged_transcript,
          segments, max_chars, sample_rate, segments_text, sampler,
          actual_duration_seconds, min_chapter_minutes, max_chapters, prompt,
          input_exists, events, response, chapters, local_files,
          retries, attempt, info, content, line_no, results, saved_results, runs>>

samplerVars == <<segments, max_chars, sample_rate, segments_text, sampler>>
chapterVars == <<actual_duration_seconds, min_chapter_minutes, max_chapters, prompt>>

splitVars == <<num_chunks, i, chunks, invocations, metadata>>
procVars == <<chunk_files, chunks_data, merged_transcript>>
inputVars == <<total_duration, chunk_duration_seconds, overlap_seconds>>
plannerVars == <<response, chapters>>
feedVars == <<retries, attempt, info, content, line_no, results, saved_results, runs>>

----------------------------------------------------------------------------
(* Bounds *)

TicksPerSecond == 2
MaxDuration == 8
MaxChunkDuration == 4
MaxOverlap == 2

----------------------------------------------------------------------------
(* Generic helpers *)

Max(a, b) == IF a >= b THEN a ELSE b

Min(a, b) == IF a <= b THEN a ELSE b

Range(s) == {s[k] : k \in 1..Len(s)}

\* math.ceil(a / b) for a >= 0, b > 0
Ceil(a, b) == (a + b - 1) \div b

NoValue == "none"

----------------------------------------------------------------------------
(* split_podcast.py: split_audio *)

\* the overlap subtracted once per chunk
StartTime_CumulativeOverlap(k) ==
    IF k = 0 THEN 0 ELSE k * chunk_duration_seconds - k * overlap_seconds

\* lines 51-55
StartTime(k) == IF k = 0 THEN 0 ELSE k * chunk_duration_seconds - overlap_seconds

\* the last chunk measured from its nominal offset instead of its start
Duration_FromNominalOffset(k) ==
    IF k < num_chunks - 1
        THEN chunk_duration_seconds + overlap_seconds
        ELSE total_duration - k * chunk_duration_seconds

\* lines 58-62
Duration(k) ==
    IF k < num_chunks - 1
        THEN chunk_duration_seconds + overlap_seconds
        ELSE total_duration - StartTime(k)

\* the overlap subtracted from the reconstruction offset as well
StartOffset_WithOverlap(k) ==
    IF k > 0 THEN k * chunk_duration_seconds - overlap_seconds ELSE 0

\* line 94
StartOffset(k) == IF k > 0 THEN k * chunk_duration_seconds ELSE 0

\* the chunks numbered by their place in the returned list
ChunkInfo_Renumbered(k) ==
    [index |-> Len(chunks),
     start_offset_seconds |-> StartOffset(k),
     duration_seconds |-> Duration(k),
     actual_start_time |-> StartTime(k)]

\* lines 91-97
ChunkInfo(k) ==
    [index |-> k,
     start_offset_seconds |-> StartOffset(k),
     duration_seconds |-> Duration(k),
     actual_start_time |-> StartTime(k)]

\* the 25-minute episode of the end-to-end scenario, with the default
\* chunk length and overlap of split_audio
ScenarioInput ==
    [D |-> 1500 * TicksPerSecond, L |-> 600 * TicksPerSecond, O |-> 3 * TicksPerSecond]

SmallInputs ==
    [D : 1..MaxDuration, L : 1..MaxChunkDuration, O : 0..MaxOverlap]

\* the default None of an optional duration parameter
NotGiven == [given |-> FALSE, value |-> 0]

\* the sampler and the chapter planner have not been called
NoSamplerCall ==
    /\ segments = <<>>
    /\ max_chars = 0
    /\ sample_rate = [num |-> 1, den |-> 1]
    /\ segments_text = NoValue
    /\ sampler = NoValue

NoPlannerCall ==
    /\ actual_duration_seconds = NotGiven
    /\ min_chapter_minutes = 0
    /\ max_chapters = 0
    /\ prompt = NoValue

\* an external call, a delay, a report or a file write
Event(kind, arg) == [kind |-> kind, arg |-> arg]

\* no chat completion has been requested
NoResponse == [kind |-> "none", chapters |-> <<>>]

\* a value returned for the chapters: a list, or the None of a null
ChapterList(items) == [is_list |-> TRUE, items |-> items]

NotAList == [is_list |-> FALSE, items |-> <<>>]

NoGenerateCall ==
    /\ response = NoResponse
    /\ chapters = ChapterList(<<>>)

\* the chunks directory before process_podcast has written to it
NoFiles == [transcript_full |-> <<>>, chapters |-> <<>>, chunk_transcripts |-> <<>>]

\* the None returned by search_itunes
NoInfo == [found |-> FALSE, feed_url |-> ""]

\* results without any category: the dict {} or an absent results file
EmptyResults == [category \in {} |-> <<>>]

\* the feed fetcher has not run
NoFeedRun ==
    /\ retries = 0
    /\ attempt = 0
    /\ info = NoInfo
    /\ content = <<>>
    /\ line_no = 0
    /\ results = EmptyResults
    /\ saved_results = EmptyResults
    /\ runs = 0

InitWith(inputs) ==
    /\ pc = "split_audio"
    /\ NoSamplerCall
    /\ NoPlannerCall
    /\ NoGenerateCall
    /\ NoFeedRun
    /\ input_exists \in BOOLEAN
    /\ events = <<>>
    /\ local_files = NoFiles
    /\ \E in \in inputs :
        /\ total_duration = in.D
        /\ chunk_duration_seconds = in.L
        /\ overlap_seconds = in.O
    /\ num_chunks = 0
    /\ i = 0
    /\ chunks = <<>>
    /\ invocations = <<>>
    /\ metadata = NoValue
    /\ chunk_files = <<>>
    /\ chunks_data = <<>>
    /\ merged_transcript = NoValue

\* lines 30-33: the input file does not exist; an empty list is returned
SplitMissingInput ==
    /\ pc = "split_audio"
    /\ ~input_exists
    /\ events' = Append(events, Event("report_error", 0))
    /\ pc' = "split_aborted"
    /\ UNCHANGED <<feedVars, plannerVars, samplerVars, chapterVars, inputVars, splitVars,
                   procVars, input_exists, local_files>>

\* lines 35-47: the duration is probed and the number of chunks computed
SplitStart ==
    /\ pc = "split_audio"
    /\ input_exists
    /\ events' = Append(events, Event("ffprobe", 0))
    /\ num_chunks' = Ceil(total_duration, chunk_duration_seconds)
    /\ i' = 0
    /\ chunks' = <<>>
    /\ pc' = "split_loop"
    /\ UNCHANGED <<feedVars, plannerVars, samplerVars, chapterVars, inputVars, invocations,
                   metadata, procVars, input_exists, local_files>>

\* lines 49-99: one iteration of the loop; the media segmentation
\* invocation returns 0 or a failure code
SplitChunk ==
    /\ pc = "split_loop"
    /\ i < num_chunks
    /\ i' = i + 1
    /\ IF Duration(i) < 1 * TicksPerSecond
          THEN UNCHANGED <<chunks, invocations, events>>
          ELSE \E returncode \in {0, 1} :
                /\ invocations' = Append(invocations,
                                         [index |-> i, ss |-> StartTime(i), t |-> Duration(i),
                                          returncode |-> returncode])
                /\ events' = IF returncode # 0
                                THEN events \o <<Event("ffmpeg", i), Event("report_error", i)>>
                                ELSE Append(events, Event("ffmpeg", i))
                /\ chunks' = IF returncode # 0 THEN chunks ELSE Append(chunks, ChunkInfo(i))
    /\ UNCHANGED <<feedVars, plannerVars, samplerVars, chapterVars, pc, inputVars, num_chunks,
                   metadata, procVars, input_exists, local_files>>

\* lines 101-123: the metadata record is written and the chunks returned
SplitFinish ==
    /\ pc = "split_loop"
    /\ i = num_chunks
    /\ metadata' = chunks
    /\ events' = Append(events, Event("write_metadata", Len(chunks)))
    /\ pc' = "split_done"
    /\ UNCHANGED <<feedVars, plannerVars, samplerVars, chapterVars, inputVars, num_chunks, i,
                   chunks, invocations, procVars, input_exists, local_files>>

InitSplit == InitWith(SmallInputs \cup {ScenarioInput})

NextSplit == SplitMissingInput \/ SplitStart \/ SplitChunk \/ SplitFinish

SpecSplit == InitSplit /\ [][NextSplit]_vars

----------------------------------------------------------------------------
(* Text: a string is modelled as the sequence of its characters *)

DigitChar(d) == <<"0", "1", "2", "3", "4", "5", "6", "7", "8", "9">>[d + 1]

\* str(n) of a natural number n, as f"{n}" renders it
RECURSIVE DecimalDigits(_)
DecimalDigits(n) ==
    IF n < 10 THEN <<DigitChar(n)>>
    ELSE DecimalDigits(n \div 10) \o <<DigitChar(n % 10)>>

\* sep.join(texts)
RECURSIVE Join(_, _)
Join(sep, texts) ==
    IF Len(texts) = 0 THEN <<>>
    ELSE IF Len(texts) = 1 THEN texts[1]
    ELSE texts[1] \o sep \o Join(sep, Tail(texts))

----------------------------------------------------------------------------
(* transcribe_podcast.py: merge_transcripts *)

\* the shifted times cut down to whole seconds
AdjustedSegment_WholeSeconds(seg, chunk_offset) ==
    [start |-> ((seg.start + chunk_offset) \div TicksPerSecond) * TicksPerSecond,
     end |-> ((seg.end + chunk_offset) \div TicksPerSecond) * TicksPerSecond,
     text |-> seg.text]

\* lines 89-90, 98-102
AdjustedSegment(seg, chunk_offset) ==
    [start |-> seg.start + chunk_offset, end |-> seg.end + chunk_offset, text |-> seg.text]

\* the overlap test applied to the first chunk as well
InOverlapRegion_AnyChunk(position, seg, overlap) == seg.start < overlap

\* lines 93-96: position is the enumerate index of the chunk in chunks_data
InOverlapRegion(position, seg, overlap) == position > 0 /\ seg.start < overlap

\* lines 84-102: the segments one chunk appends to merged_segments
ChunkMergedSegments(position, chunk_data, overlap) ==
    LET kept == SelectSeq(chunk_data.transcript.segments,
                          LAMBDA seg : ~InOverlapRegion(position, seg, overlap))
    IN  [k \in 1..Len(kept) |-> AdjustedSegment(kept[k], chunk_data.start_offset_seconds)]

\* lines 83-102: merged_segments after the first n chunks, in arrival order
RECURSIVE AppendedSegments(_, _, _)
AppendedSegments(data, n, overlap) ==
    IF n = 0 THEN <<>>
    ELSE AppendedSegments(data, n - 1, overlap)
            \o ChunkMergedSegments(n - 1, data[n], overlap)

\* an unstable sort: x goes before the elements of equal key
InsertByStart_Unstable(sorted, x) ==
    SelectSeq(sorted, LAMBDA e : e.start < x.start)
        \o <<x>> \o SelectSeq(sorted, LAMBDA e : e.start >= x.start)

\* list.sort is stable: x goes behind every element whose key is not larger
InsertByStart(sorted, x) ==
    SelectSeq(sorted, LAMBDA e : e.start <= x.start)
        \o <<x>> \o SelectSeq(sorted, LAMBDA e : e.start > x.start)

\* line 105: merged_segments.sort(key=lambda x: x['start'])
RECURSIVE SortByStart(_)
SortByStart(segs) ==
    IF Len(segs) = 0 THEN <<>>
    ELSE InsertByStart(SortByStart(SubSeq(segs, 1, Len(segs) - 1)), segs[Len(segs)])

\* line 108: " ".join([seg['text'] for seg in merged_segments])
MergedText(merged_segments) ==
    Join(<<" ">>, [k \in 1..Len(merged_segments) |-> merged_segments[k].text])

\* lines 80-113
MergeTranscripts(data, overlap) ==
    LET merged_segments == SortByStart(AppendedSegments(data, Len(data), overlap))
    IN  [text |-> MergedText(merged_segments), segments |-> merged_segments]

----------------------------------------------------------------------------
(* transcribe_podcast.py: process_podcast *)

DefaultChunkDuration == 600

\* line 303; chunk_duration is the fixed default of line 295
ProcessStartOffset(position, overlap) ==
    IF position = 0 THEN position * (DefaultChunkDuration * TicksPerSecond)
    ELSE position * (DefaultChunkDuration * TicksPerSecond) - overlap

\* The speech-to-text service on the file of chunk k: the audio is a row of
\* instants 0 .. total_duration-1, the file holds the instants of the window
\* the splitter cut that lie in the recording, and the service returns one
\* segment per instant, timed from the start of the file, whose text names
\* the instant.
InstantSegments(k) ==
    LET from == Max(StartTime(k), 0)
        to == Min(StartTime(k) + Duration(k), total_duration)
    IN  [n \in 1..(to - from) |->
            [start |-> from + n - 1 - StartTime(k),
             end |-> from + n - StartTime(k),
             text |-> DecimalDigits(from + n - 1)]]

\* lines 46-61: the result of transcribe_chunk
Transcript(segs) ==
    [text |-> Join(<<" ">>, [k \in 1..Len(segs) |-> segs[k].text]), segments |-> segs]

\* the delay of line 317, in tenths of a second
TranscriptionDelay == 10

\* a delay after every transcription
TranscribeEvents_AlwaysSleep(position, count) ==
    <<Event("transcribe", position), Event("sleep", TranscriptionDelay)>>

\* lines 306-317: the transcription of the chunk file at a position among
\* count files, and the delay that follows it unless it is the last
TranscribeEvents(position, count) ==
    IF position < count - 1
        THEN <<Event("transcribe", position), Event("sleep", TranscriptionDelay)>>
        ELSE <<Event("transcribe", position)>>

\* lines 284-291: the chunk files are found and sorted by name;
\* no chunk file raises ValueError
ProcessStart ==
    /\ pc \in {"split_done", "split_aborted"}
    /\ chunk_files' = [k \in 1..Len(chunks) |-> chunks[k].index]
    /\ pc' = IF Len(chunks) = 0 THEN "process_raised" ELSE "transcribe"
    /\ UNCHANGED <<feedVars, plannerVars, samplerVars, chapterVars, inputVars, splitVars,
                   chunks_data, merged_transcript, input_exists, events, local_files>>

\* lines 299-317: one iteration of the transcription loop; transcribe_chunk
\* reports an error of the speech-to-text call and raises it again (lines
\* 63-65), and process_podcast does not catch it
TranscribeChunk ==
    /\ pc = "transcribe"
    /\ Len(chunks_data) < Len(chunk_files)
    /\ LET position == Len(chunks_data)
           file == chunk_files[position + 1]
       IN  \E transcribed \in BOOLEAN :
            IF transcribed
                THEN /\ chunks_data' = Append(chunks_data,
                            [file |-> file,
                             index |-> position,
                             start_offset_seconds |->
                                ProcessStartOffset(position, overlap_seconds),
                             transcript |-> Transcript(InstantSegments(file))])
                     /\ events' = events \o TranscribeEvents(position, Len(chunk_files))
                     /\ pc' = pc
                ELSE /\ chunks_data' = chunks_data
                     /\ events' = events \o <<Event("transcribe", position),
                                               Event("report_error", position)>>
                     /\ pc' = "process_raised"
    /\ UNCHANGED <<feedVars, plannerVars, samplerVars, chapterVars, inputVars, splitVars,
                   chunk_files, merged_transcript, input_exists, local_files>>

\* line 320
MergeChunks ==
    /\ pc = "transcribe"
    /\ Len(chunks_data) = Len(chunk_files)
    /\ merged_transcript' = MergeTranscripts(chunks_data, overlap_seconds)
    /\ pc' = "merged"
    /\ UNCHANGED <<feedVars, plannerVars, samplerVars, chapterVars, inputVars, splitVars,
                   chunk_files, chunks_data, input_exists, events, local_files>>

----------------------------------------------------------------------------
(* merge_transcripts called on its own *)

MaxMergeChunks == 2
MaxChunkSegments == 2

\* chunk-local segment starts, on either side of an overlap of 1
SegmentStarts == {0, 1}

\* the offset of the chunk at position k is k times one of these strides
OffsetStrides == {0, 1}

\* the text of the n-th segment of the chunk at a position: a label no other
\* segment carries, of a length that varies with n
SegmentLabel(position, n) ==
    DecimalDigits(position) \o [k \in 1..n |-> "x"]

\* the chunk-local starts of the segments of one transcription
StartLists == UNION {[1..len -> SegmentStarts] : len \in 0..MaxChunkSegments}

\* the segments of the chunk at a position that start at the given times
LabelledSegments(position, starts) ==
    [k \in 1..Len(starts) |->
        [start |-> starts[k], end |-> starts[k] + 1, text |-> SegmentLabel(position, k)]]

\* chunks_data: up to MaxMergeChunks chunks, the offsets a multiple of a stride
MergeInputs ==
    UNION {
        {[k \in 1..len |->
            [file |-> k - 1, index |-> k - 1,
             start_offset_seconds |-> (k - 1) * stride,
             transcript |-> Transcript(LabelledSegments(k - 1, lists[k]))]] :
            lists \in [1..len -> StartLists], stride \in OffsetStrides} :
        len \in 0..MaxMergeChunks}

InitMerge ==
    /\ pc = "merge_transcripts"
    /\ chunks_data \in MergeInputs
    /\ overlap_seconds \in 0..MaxOverlap
    /\ total_duration = 0
    /\ chunk_duration_seconds = 0
    /\ num_chunks = 0
    /\ i = 0
    /\ chunks = <<>>
    /\ invocations = <<>>
    /\ metadata = NoValue
    /\ chunk_files = <<>>
    /\ merged_transcript = NoValue
    /\ NoSamplerCall
    /\ NoPlannerCall
    /\ NoGenerateCall
    /\ NoFeedRun
    /\ input_exists = TRUE
    /\ events = <<>>
    /\ local_files = NoFiles

\* lines 67-113
MergeCall ==
    /\ pc = "merge_transcripts"
    /\ merged_transcript' = MergeTranscripts(chunks_data, overlap_seconds)
    /\ pc' = "merge_returned"
    /\ UNCHANGED <<feedVars, plannerVars, samplerVars, chapterVars, inputVars, splitVars,
                   chunk_files, chunks_data, input_exists, events, local_files>>

NextMerge == MergeCall

SpecMerge == InitMerge /\ [][NextMerge]_vars

----------------------------------------------------------------------------
(* Properties of the splitter and of the pipeline *)

AllInvocationsSucceeded ==
    \A k \in 1..Len(invocations) : invocations[k].returncode = 0

WholeSeconds ==
    /\ total_duration % TicksPerSecond = 0
    /\ chunk_duration_seconds % TicksPerSecond = 0
    /\ overlap_seconds % TicksPerSecond = 0

\* how often the content of instant t occurs in the merged segments
Occurrences(t) ==
    Cardinality({k \in 1..Len(merged_transcript.segments) :
                    merged_transcript.segments[k].text = DecimalDigits(t)})

\* C1: once the windows of split_audio (whole seconds, an overlap no longer
\* than a chunk, every invocation succeeding) are transcribed instant by
\* instant and merged with the same overlap, the content of every instant of
\* [0, D) occurs exactly once in the merged segments.
C1_EveryInstantExactlyOnce ==
    (pc = "merged" /\ AllInvocationsSucceeded /\ WholeSeconds
        /\ overlap_seconds <= chunk_duration_seconds)
        => \A t \in 0..(total_duration - 1) : Occurrences(t) = 1

\* the end of the window of a returned chunk
ChunkEnd(c) == c.actual_start_time + c.duration_seconds

\* C2 as stated: with every invocation succeeding (an episode and a chunk
\* length of a second or more), the returned chunk windows start at 0, leave
\* no gap, and the final returned chunk ends at D exactly.
C2_ReturnedChunksReachEnd ==
    (pc = "split_done" /\ AllInvocationsSucceeded
        /\ total_duration >= TicksPerSecond /\ chunk_duration_seconds >= TicksPerSecond)
        => /\ Len(chunks) > 0
           /\ chunks[1].actual_start_time = 0
           /\ \A k \in 1..(Len(chunks) - 1) :
                chunks[k + 1].actual_start_time <= ChunkEnd(chunks[k])
           /\ ChunkEnd(chunks[Len(chunks)]) = total_duration

\* the candidate chunks that are at least one second long, in index order
RECURSIVE AcceptedCandidates(_)
AcceptedCandidates(n) ==
    IF n = 0 THEN <<>>
    ELSE IF Duration(n - 1) < TicksPerSecond THEN AcceptedCandidates(n - 1)
    ELSE Append(AcceptedCandidates(n - 1), n - 1)

\* C2 as amended: the candidate windows computed by split_audio start at 0,
\* leave no gap and the last candidate ends at D exactly; with every
\* invocation succeeding the returned chunks are exactly the candidates that
\* are at least one second long, so the final returned chunk ends at D
\* whenever the last candidate is returned.
C2_CandidatesCoverAndLongOnesReturned ==
    (pc = "split_done" /\ AllInvocationsSucceeded)
        => /\ num_chunks > 0
           /\ StartTime(0) = 0
           /\ \A k \in 0..(num_chunks - 2) : StartTime(k + 1) <= StartTime(k) + Duration(k)
           /\ StartTime(num_chunks - 1) + Duration(num_chunks - 1) = total_duration
           /\ [k \in 1..Len(chunks) |-> chunks[k].index] = AcceptedCandidates(num_chunks)
           /\ \A k \in 1..Len(chunks) :
                /\ chunks[k].actual_start_time = StartTime(chunks[k].index)
                /\ chunks[k].duration_seconds = Duration(chunks[k].index)
           /\ (Duration(num_chunks - 1) >= TicksPerSecond
                => ChunkEnd(chunks[Len(chunks)]) = total_duration)

\* a run that returned at least two chunks, with an overlap, the last
\* candidate among them
C2_Witness ==
    /\ pc = "split_done"
    /\ AllInvocationsSucceeded
    /\ overlap_seconds > 0
    /\ Len(chunks) >= 2
    /\ chunks[Len(chunks)].index = num_chunks - 1
    /\ ChunkEnd(chunks[Len(chunks)]) = total_duration

\* C3: N = ceil(D / L); chunk i has actual start 0 if i = 0 else i*L - O,
\* duration L + O unless it is the last (then D - actual start), and
\* reconstruction offset i*L; D = 1500, L = 600, O = 3 gives three chunks
\* with actual starts 0, 597, 1197 and durations 603, 603, 303.
C3_ChunkArithmetic ==
    (pc \in {"split_loop", "split_done"})
        => /\ num_chunks * chunk_duration_seconds >= total_duration
           /\ (num_chunks - 1) * chunk_duration_seconds < total_duration
           /\ \A k \in 1..Len(chunks) :
                LET c == chunks[k]
                    n == c.index
                IN  /\ n \in 0..(num_chunks - 1)
                    /\ c.actual_start_time =
                         (IF n = 0 THEN 0
                          ELSE n * chunk_duration_seconds - overlap_seconds)
                    /\ c.duration_seconds =
                         (IF n # num_chunks - 1
                          THEN chunk_duration_seconds + overlap_seconds
                          ELSE total_duration - c.actual_start_time)
                    /\ c.start_offset_seconds = n * chunk_duration_seconds
           /\ (/\ pc = "split_done"
               /\ AllInvocationsSucceeded
               /\ total_duration = 1500 * TicksPerSecond
               /\ chunk_duration_seconds = 600 * TicksPerSecond
               /\ overlap_seconds = 3 * TicksPerSecond)
              => /\ [k \in 1..Len(chunks) |-> chunks[k].actual_start_time]
                      = <<0, 597 * TicksPerSecond, 1197 * TicksPerSecond>>
                 /\ [k \in 1..Len(chunks) |-> chunks[k].duration_seconds]
                      = <<603 * TicksPerSecond, 603 * TicksPerSecond, 303 * TicksPerSecond>>

\* the 25-minute scenario split into its three chunks
C3_Witness ==
    /\ pc = "split_done"
    /\ AllInvocationsSucceeded
    /\ total_duration = 1500 * TicksPerSecond
    /\ chunk_duration_seconds = 600 * TicksPerSecond
    /\ overlap_seconds = 3 * TicksPerSecond
    /\ Len(chunks) = 3

\* C4: in the pipeline every surviving segment of chunk i appears in the
\* merged transcript shifted by the nominal offset i*L (0 for chunk 0), the
\* overlap not subtracted.
C4_MergedWithNominalOffset ==
    (pc = "merged" /\ AllInvocationsSucceeded /\ overlap_seconds <= chunk_duration_seconds)
        => \A p \in 1..Len(chunks_data) :
             \A seg \in Range(chunks_data[p].transcript.segments) :
                ~InOverlapRegion(p - 1, seg, overlap_seconds)
                    => AdjustedSegment(seg, (p - 1) * chunk_duration_seconds)
                          \in Range(merged_transcript.segments)

----------------------------------------------------------------------------
(* Properties of merge_transcripts *)

\* the segments the rule of the merger keeps: all of the first chunk, and of
\* a later chunk those whose chunk-local start is not below the overlap
KeptSegments ==
    UNION {
        {[start |-> seg.start + chunks_data[p].start_offset_seconds,
          end |-> seg.end + chunks_data[p].start_offset_seconds,
          text |-> seg.text] :
            seg \in {s \in Range(chunks_data[p].transcript.segments) :
                        p = 1 \/ s.start >= overlap_seconds}} :
        p \in 1..Len(chunks_data)}

\* C5: the merged segments are exactly the segments of the first chunk and
\* the segments of later chunks whose chunk-local start is >= the overlap
\* (each shifted by its chunk's offset, each once); a segment of a later
\* chunk that starts below the overlap is absent.
C5_KeepsExactlyNonOverlapSegments ==
    (pc = "merge_returned")
        => /\ Range(merged_transcript.segments) = KeptSegments
           /\ Len(merged_transcript.segments) = Cardinality(KeptSegments)
           /\ \A p \in 2..Len(chunks_data) :
                \A seg \in Range(chunks_data[p].transcript.segments) :
                    seg.start < overlap_seconds
                        => \A m \in Range(merged_transcript.segments) : m.text # seg.text

\* a merge in which one chunk has no segments and a later chunk has a
\* segment inside the overlap and a segment behind it
C5_Witness ==
    /\ pc = "merge_returned"
    /\ Len(chunks_data) >= 2
    /\ \E p \in 2..Len(chunks_data) :
        /\ \E seg \in Range(chunks_data[p].transcript.segments) : seg.start < overlap_seconds
        /\ \E seg \in Range(chunks_data[p].transcript.segments) : seg.start >= overlap_seconds
    /\ \E p \in 1..Len(chunks_data) : Len(chunks_data[p].transcript.segments) = 0
    /\ Len(merged_transcript.segments) > 0

\* the place <<chunk position, place in the chunk>> a merged segment came from
Origin(m) ==
    CHOOSE o \in UNION {{<<p, n>> : n \in 1..Len(chunks_data[p].transcript.segments)} :
                            p \in 1..Len(chunks_data)} :
        chunks_data[o[1]].transcript.segments[o[2]].text = m.text

ArrivedBefore(a, b) == a[1] < b[1] \/ (a[1] = b[1] /\ a[2] < b[2])

\* C6: the merged segments are in non-decreasing order of start, segments
\* with equal start keep their arrival order (chunk order, then order within
\* the chunk), and the merged text is the segment texts in that order joined
\* by single spaces.
C6_SortedStableAndJoined ==
    (pc = "merge_returned")
        => LET segs == merged_transcript.segments
           IN  /\ \A k \in 1..(Len(segs) - 1) : segs[k].start <= segs[k + 1].start
               /\ \A a, b \in 1..Len(segs) :
                    (a < b /\ segs[a].start = segs[b].start)
                        => ArrivedBefore(Origin(segs[a]), Origin(segs[b]))
               /\ merged_transcript.text
                    = Join(<<" ">>, [k \in 1..Len(segs) |-> segs[k].text])

\* a merge the sort reorders, with two merged segments of different chunks
\* sharing a start
C6_Witness ==
    /\ pc = "merge_returned"
    /\ LET segs == merged_transcript.segments
       IN  /\ \E a, b \in 1..Len(segs) :
                /\ a < b
                /\ segs[a].start = segs[b].start
                /\ Origin(segs[a])[1] < Origin(segs[b])[1]
           /\ \E a, b \in 1..Len(segs) :
                a < b /\ ArrivedBefore(Origin(segs[b]), Origin(segs[a]))

----------------------------------------------------------------------------
(* generate_chapters.py: prepare_segments_for_gpt                          *)
(* (transcribe_podcast.py: _prepare_segments_for_gpt is the same function  *)
(* without the sample_rate parameter).                                     *)
(* The times of the segments passed to the sampler are counted in tenths   *)
(* of a second, the resolution of the rendering.                           *)

MaxSegments == 3
MaxChars == 40
SegmentTenths == 45

\* f"{x:.1f}" of a time of t tenths of a second
FormatTenths(t) == DecimalDigits(t \div 10) \o <<".">> \o <<DigitChar(t % 10)>>

\* lines 52 and 78: f"[{seg['start']:.1f}-{seg['end']:.1f}] {seg['text']}\n"
SegmentLine(seg) ==
    <<"[">> \o FormatTenths(seg.start) \o <<"-">> \o FormatTenths(seg.end)
        \o <<"]", " ">> \o seg.text \o <<"\n">>

\* line 73: the note put before a sampled rendering
SamplingNote(included, count) ==
    <<"[", "N", "O", "T", "E", ":", " ", "S", "a", "m", "p", "l", "e", "d", " ">>
        \o DecimalDigits(included)
        \o <<" ", "o", "f", " ">>
        \o DecimalDigits(count)
        \o <<" ", "s", "e", "g", "m", "e", "n", "t", "s", " ", "e", "v", "e", "n", "l", "y", " ", "a", "c", "r", "o", "s", "s", " ", "t", "h", "e", " ", "p", "o", "d", "c", "a", "s", "t", "]", "\n", "\n">>

\* lines 43-45: segments[::step] with step = int(1 / sample_rate)
Decimated(segs, rate) ==
    IF rate.num < rate.den
        THEN LET step == rate.den \div rate.num
             IN  [k \in 1..Ceil(Len(segs), step) |-> segs[(k - 1) * step + 1]]
        ELSE segs

\* lines 50-54: total_length
RECURSIVE TotalLength(_)
TotalLength(lines) ==
    IF Len(lines) = 0 THEN 0 ELSE Len(lines[1]) + TotalLength(Tail(lines))

\* lines 65-66: int(max_chars / (total_length / len(segments)))
SegmentsToInclude(budget, total_length, count) == (budget * count) \div total_length

\* line 70: [int(i * step) for i in range(segments_to_include)]
\* with step = len(segments) / segments_to_include
SampledIndices(count, included) ==
    [k \in 1..included |-> ((k - 1) * count) \div included]

\* lines 75-79: the lines of the sampled indices that are inside the list
SampledLines(lines, indices) ==
    LET inside == SelectSeq(indices, LAMBDA idx : idx < Len(lines))
    IN  [k \in 1..Len(inside) |-> lines[inside[k] + 1]]

\* lines 43-82: the value returned and the local variables at the return;
\* line 69 raises ZeroDivisionError when segments_to_include is 0
PrepareSegmentsForGpt(segs_in, budget, rate) ==
    LET segs == Decimated(segs_in, rate)
        full_text == [k \in 1..Len(segs) |-> SegmentLine(segs[k])]
        total_length == TotalLength(full_text)
        segments_to_include == SegmentsToInclude(budget, total_length, Len(segs))
        sampled_indices == SampledIndices(Len(segs), segments_to_include)
    IN  IF total_length <= budget
            THEN [raised |-> FALSE, text |-> Join(<<>>, full_text),
                  count |-> Len(segs), total_length |-> total_length, sampled |-> FALSE,
                  segments_to_include |-> NoValue, sampled_indices |-> <<>>]
        ELSE IF segments_to_include = 0
            THEN [raised |-> TRUE, text |-> NoValue,
                  count |-> Len(segs), total_length |-> total_length, sampled |-> TRUE,
                  segments_to_include |-> 0, sampled_indices |-> <<>>]
        ELSE [raised |-> FALSE,
              text |-> SamplingNote(segments_to_include, Len(segs))
                          \o Join(<<>>, SampledLines(full_text, sampled_indices)),
              count |-> Len(segs), total_length |-> total_length, sampled |-> TRUE,
              segments_to_include |-> segments_to_include,
              sampled_indices |-> sampled_indices]

SegmentTexts == {<<>>, <<"h", "i">>, <<"o", "k", "a", "y">>}

SampleRates == {[num |-> 1, den |-> 1], [num |-> 1, den |-> 2], [num |-> 2, den |-> 3]}

\* segment lists in time order, each segment SegmentTenths long
SegmentLists ==
    UNION {
        {[k \in 1..len |-> [start |-> (k - 1) * SegmentTenths, end |-> k * SegmentTenths,
                            text |-> texts[k]]] :
            texts \in [1..len -> SegmentTexts]} :
        len \in 0..MaxSegments}

\* the variables of the splitter and of the merger before they run
NoPipelineRunState ==
    /\ total_duration = 0
    /\ chunk_duration_seconds = 0
    /\ overlap_seconds = 0
    /\ num_chunks = 0
    /\ i = 0
    /\ chunks = <<>>
    /\ invocations = <<>>
    /\ metadata = NoValue
    /\ chunk_files = <<>>
    /\ chunks_data = <<>>
    /\ merged_transcript = NoValue

\* the splitter and the merger have not run
NoPipelineRun ==
    /\ NoPipelineRunState
    /\ input_exists = TRUE
    /\ events = <<>>
    /\ local_files = NoFiles

InitSampler ==
    /\ pc = "prepare_segments_for_gpt"
    /\ segments \in SegmentLists
    /\ max_chars \in 0..MaxChars
    /\ sample_rate \in SampleRates
    /\ segments_text = NoValue
    /\ sampler = NoValue
    /\ NoPipelineRun
    /\ NoPlannerCall
    /\ NoGenerateCall
    /\ NoFeedRun

\* lines 33-82
PrepareCall ==
    /\ pc = "prepare_segments_for_gpt"
    /\ LET result == PrepareSegmentsForGpt(segments, max_chars, sample_rate)
       IN  /\ sampler' = result
           /\ segments_text' = result.text
           /\ pc' = IF result.raised THEN "prepare_raised" ELSE "prepare_returned"
    /\ UNCHANGED <<feedVars, plannerVars, inputVars, splitVars, procVars, chapterVars, segments,
                   max_chars, sample_rate, input_exists, events, local_files>>

NextSampler == PrepareCall

SpecSampler == InitSampler /\ [][NextSampler]_vars

----------------------------------------------------------------------------
(* Properties of the budget sampler *)

\* C7: the text the sampler returns, the sampling note included, is at most
\* max_chars characters long.
C7_WithinBudget ==
    (pc = "prepare_returned") => Len(segments_text) <= max_chars

\* the rendering the sampler is to return for the list segs and the budget
\* B: every line if they fit, else the note and the lines floor(k * N / K)
\* for k = 0..K-1 with K = floor(B / (total / N))
ReferenceRendering(segs, B) ==
    LET N == Len(segs)
        lines == [k \in 1..N |-> SegmentLine(segs[k])]
        total == TotalLength(lines)
        K == (B * N) \div total
    IN  IF total <= B THEN Join(<<>>, lines)
        ELSE SamplingNote(K, N)
                \o Join(<<>>, [k \in 1..K |-> lines[(((k - 1) * N) \div K) + 1]])

\* C8: for every input (the rate left at 1) the sampler returns the reference
\* rendering.
C8_EqualsReference ==
    (pc # "prepare_segments_for_gpt" /\ sample_rate.num = sample_rate.den)
        => /\ pc = "prepare_returned"
           /\ segments_text = ReferenceRendering(segments, max_chars)

\* C9: whenever the sampler takes the sampling branch, every sampled index is
\* inside the list, the indices increase strictly, index 0 is sampled and
\* the largest index is less than one stride away from the last segment.
C9_SampleSpansTheList ==
    (pc # "prepare_segments_for_gpt" /\ sampler.sampled)
        => LET idx == sampler.sampled_indices
               N == sampler.count
               K == Len(idx)
           IN  /\ pc = "prepare_returned"
               /\ K > 0
               /\ \A k \in 1..K : idx[k] \in 0..(N - 1)
               /\ \A k \in 1..(K - 1) : idx[k] < idx[k + 1]
               /\ idx[1] = 0
               /\ (N - 1 - idx[K]) * K < N

----------------------------------------------------------------------------
(* generate_chapters.py: build_chapters_prompt *)

MaxDurationSeconds == 600
MaxMinChapterMinutes == 3
MaxMaxChapters == 6

IsDigit(c) == c \in {"0", "1", "2", "3", "4", "5", "6", "7", "8", "9"}

\* the position behind the run of digits that starts at position p
RECURSIVE DigitRunEnd(_, _)
DigitRunEnd(text, p) ==
    IF p <= Len(text) /\ IsDigit(text[p]) THEN DigitRunEnd(text, p + 1) ELSE p

\* int() of a run of digits
RECURSIVE ParseDigits(_)
ParseDigits(digits) ==
    IF Len(digits) = 0 THEN 0
    ELSE 10 * ParseDigits(SubSeq(digits, 1, Len(digits) - 1))
            + (CHOOSE d \in 0..9 : DigitChar(d) = digits[Len(digits)])

\* \d+\.\d+ at position p: the digits before and behind the point, and the
\* position behind the match (next is 0 when there is no match)
NumberAt(text, p) ==
    LET point == DigitRunEnd(text, p)
        stop == DigitRunEnd(text, point + 1)
    IN  IF point > p /\ point <= Len(text) /\ text[point] = "." /\ stop > point + 1
            THEN [next |-> stop, whole |-> SubSeq(text, p, point - 1),
                  fraction |-> SubSeq(text, point + 1, stop - 1)]
            ELSE [next |-> 0, whole |-> <<>>, fraction |-> <<>>]

\* lines 95 and 103: \[\d+\.\d+-\d+\.\d+\] at position p
TimestampAt(text, p) ==
    LET first == NumberAt(text, p + 1)
        second == NumberAt(text, first.next + 1)
    IN  IF /\ text[p] = "["
           /\ first.next # 0
           /\ first.next <= Len(text)
           /\ text[first.next] = "-"
           /\ second.next # 0
           /\ second.next <= Len(text)
           /\ text[second.next] = "]"
            THEN [matched |-> TRUE, start |-> first, end |-> second]
            ELSE [matched |-> FALSE, start |-> first, end |-> second]

\* re.findall: the positions of the matches, which cannot overlap
TimestampPositions(text) == {p \in 1..Len(text) : TimestampAt(text, p).matched}

\* an uncapped chapter count
IdealChapters_Uncapped(duration_minutes, m, X) ==
    Max(Max(3, duration_minutes \div (m * 3)), duration_minutes \div m)

\* line 108
MinChapters(duration_minutes, m) == Max(3, duration_minutes \div (m * 3))

\* line 109
IdealChapters(duration_minutes, m, X) ==
    Min(X, Max(MinChapters(duration_minutes, m), duration_minutes \div m))

\* lines 95-143: the local variables and the values the prompt embeds.
\* duration_seconds is float(all_timestamps[-1]), kept as its whole seconds
\* and the digits of its fraction; int(duration_seconds / 60) and
\* int(duration_seconds) depend on the whole seconds only.
\* The parameter actual_duration_seconds is not read.
BuildChaptersPrompt(text, actual_duration, m, X) ==
    LET positions == TimestampPositions(text)
        last == TimestampAt(text, CHOOSE p \in positions : \A q \in positions : q <= p)
        duration_seconds ==
            IF positions = {} THEN [whole |-> 3000, fraction |-> <<"0">>]
            ELSE [whole |-> ParseDigits(last.end.whole), fraction |-> last.end.fraction]
        duration_minutes ==
            IF positions = {} THEN 50 ELSE duration_seconds.whole \div 60
        min_chapters == MinChapters(duration_minutes, m)
        ideal_chapters == IdealChapters(duration_minutes, m, X)
    IN  [duration_seconds |-> duration_seconds,
         duration_minutes |-> duration_minutes,
         min_chapters |-> min_chapters,
         ideal_chapters |-> ideal_chapters,
         chapters_from |-> ideal_chapters - 2,
         chapters_to |-> ideal_chapters + 2,
         min_chapter_minutes |-> m,
         min_chapter_seconds |-> m * 60,
         last_chapter_end |-> duration_seconds.whole,
         segments_text |-> text]

\* one hour, a minimum chapter length of 5 minutes, at most 15 chapters
HourEpisode == [D |-> 3600 * 10, m |-> 5, X |-> 15]

PlannerInputs ==
    {[D |-> seconds * 10 + tenths, m |-> m, X |-> X] :
        seconds \in 0..MaxDurationSeconds, tenths \in {0, 9},
        m \in 1..MaxMinChapterMinutes, X \in 1..MaxMaxChapters}

\* an episode of D tenths of a second as two segments
EpisodeSegments(D) ==
    <<[start |-> 0, end |-> D \div 2, text |-> <<"h", "i">>],
      [start |-> D \div 2, end |-> D, text |-> <<"o", "k", "a", "y">>]>>

InitPlanner ==
    /\ pc = "build_chapters_prompt"
    /\ \E in \in PlannerInputs \cup {HourEpisode} :
        /\ segments \in (IF in.D = 0 THEN {<<>>} ELSE {}) \cup {EpisodeSegments(in.D)}
        /\ min_chapter_minutes = in.m
        /\ max_chapters = in.X
        /\ actual_duration_seconds \in {NotGiven, [given |-> TRUE, value |-> in.D]}
    /\ max_chars = 50000
    /\ sample_rate = [num |-> 1, den |-> 1]
    /\ sampler = PrepareSegmentsForGpt(segments, max_chars, sample_rate)
    /\ segments_text = sampler.text
    /\ prompt = NoValue
    /\ NoPipelineRun
    /\ NoGenerateCall
    /\ NoFeedRun

\* lines 84-143
BuildPromptCall ==
    /\ pc = "build_chapters_prompt"
    /\ prompt' = BuildChaptersPrompt(segments_text, actual_duration_seconds,
                                     min_chapter_minutes, max_chapters)
    /\ pc' = "prompt_built"
    /\ UNCHANGED <<feedVars, plannerVars, inputVars, splitVars, procVars, samplerVars,
                   actual_duration_seconds, min_chapter_minutes, max_chapters, input_exists,
                   events, local_files>>

NextPlanner == BuildPromptCall

SpecPlanner == InitPlanner /\ [][NextPlanner]_vars

----------------------------------------------------------------------------
(* Properties of the chapter planner *)

\* the duration, in tenths of a second, of the episode whose rendering the
\* planner is given: the end of its last segment
RenderedDuration == segments[Len(segments)].end

\* C10: with D the duration the rendering ends at (D/60 not truncated to
\* whole minutes), the chapter count is
\* min(X, max(max(3, floor((D/60) / (3m))), floor((D/60) / m))), the request
\* asks for that count - 2 to that count + 2 chapters, and D = 3600, m = 5,
\* X = 15 gives min_chapters = 4 and ideal_chapters = 12.
C10_ChapterCount ==
    (pc = "prompt_built" /\ Len(segments) > 0)
        => LET D == RenderedDuration
               m == min_chapter_minutes
               X == max_chapters
               ideal == Min(X, Max(Max(3, D \div (600 * 3 * m)), D \div (600 * m)))
           IN  /\ prompt.ideal_chapters = ideal
               /\ prompt.chapters_from = ideal - 2
               /\ prompt.chapters_to = ideal + 2
               /\ (D = 36000 /\ m = 5 /\ X = 15)
                    => (prompt.min_chapters = 4 /\ prompt.ideal_chapters = 12)

\* the prompt built for the one-hour episode
C10_Witness ==
    /\ pc = "prompt_built"
    /\ Len(segments) > 0
    /\ RenderedDuration = 36000
    /\ min_chapter_minutes = 5
    /\ max_chapters = 15
    /\ prompt.ideal_chapters = 12

----------------------------------------------------------------------------
(* The chat completion call and what generate_chapters makes of it *)

\* a chapter record of a response; keys are the keys the record has
Chapter(start, end, keys) ==
    [title |-> "Introduction", start_seconds |-> start, end_seconds |-> end,
     summary |-> "Welcome", keys |-> keys]

ChapterKeys == {"title", "start_seconds", "end_seconds", "summary"}

\* What the chat completion call can produce: an exception, a content that
\* is not JSON, a JSON value that is not an object, an object without the
\* key 'chapters', an object whose 'chapters' is null, and an object whose
\* 'chapters' is a list (empty, of well-formed chapters, or of a chapter
\* without its times).
Responses ==
    {[kind |-> "api_error", chapters |-> <<>>],
     [kind |-> "not_json", chapters |-> <<>>],
     [kind |-> "json_not_object", chapters |-> <<>>],
     [kind |-> "object_without_chapters", chapters |-> <<>>],
     [kind |-> "chapters_null", chapters |-> <<>>],
     [kind |-> "chapters_list", chapters |-> <<>>],
     [kind |-> "chapters_list",
      chapters |-> <<Chapter(0, 300, ChapterKeys), Chapter(300, 600, ChapterKeys)>>],
     [kind |-> "chapters_list", chapters |-> <<Chapter(0, 0, {"title", "summary"})>>]}

\* the chapters read with result['chapters']: a missing key raises KeyError
GeneratorChapters_KeyAccess(resp) ==
    IF resp.kind \in {"api_error", "not_json", "json_not_object", "chapters_null",
                      "object_without_chapters"}
        THEN [chapters |-> ChapterList(<<>>), error_reported |-> TRUE]
    ELSE IF /\ Len(resp.chapters) > 0
            /\ ~("start_seconds" \in resp.chapters[1].keys
                    /\ "end_seconds" \in resp.chapters[Len(resp.chapters)].keys)
        THEN [chapters |-> ChapterList(<<>>), error_reported |-> TRUE]
    ELSE [chapters |-> ChapterList(resp.chapters), error_reported |-> FALSE]

\* generate_chapters.py lines 176-209: the list returned and whether the
\* except branch reported an error
GeneratorChapters(resp) ==
    IF resp.kind \in {"api_error", "not_json", "json_not_object", "chapters_null"}
        THEN [chapters |-> ChapterList(<<>>), error_reported |-> TRUE]
    ELSE IF resp.kind = "object_without_chapters"
        THEN [chapters |-> ChapterList(<<>>), error_reported |-> FALSE]
    ELSE IF /\ Len(resp.chapters) > 0
            /\ ~("start_seconds" \in resp.chapters[1].keys
                    /\ "end_seconds" \in resp.chapters[Len(resp.chapters)].keys)
        THEN [chapters |-> ChapterList(<<>>), error_reported |-> TRUE]
    ELSE [chapters |-> ChapterList(resp.chapters), error_reported |-> FALSE]

\* transcribe_podcast.py lines 156-179
TranscriberChapters(resp) ==
    IF resp.kind \in {"api_error", "not_json", "json_not_object"}
        THEN [chapters |-> ChapterList(<<>>), error_reported |-> TRUE]
    ELSE IF resp.kind = "object_without_chapters"
        THEN [chapters |-> ChapterList(<<>>), error_reported |-> FALSE]
    ELSE IF resp.kind = "chapters_null"
        THEN [chapters |-> NotAList, error_reported |-> FALSE]
    ELSE [chapters |-> ChapterList(resp.chapters), error_reported |-> FALSE]

\* the events of a chat completion call and of the report of its failure
ChatEvents(outcome) ==
    IF outcome.error_reported
        THEN <<Event("chat_completion", 0), Event("report_error", 0)>>
        ELSE <<Event("chat_completion", 0)>>

----------------------------------------------------------------------------
(* generate_chapters.py: generate_chapters and main;                       *)
(* transcribe_podcast.py: generate_chapters                                *)

\* line 33: the default max_chars of the sampler
DefaultMaxChars == 50000

\* line 84: the defaults of build_chapters_prompt
DefaultMinChapterMinutes == 5
DefaultMaxChapters == 15

\* lines 171-174: the rendering and the prompt generate_chapters makes.
\* The prompt is built by build_chapters_prompt(segments_text,
\* min_chapter_minutes): the minimum chapter length arrives as
\* actual_duration_seconds, and min_chapter_minutes and max_chapters keep
\* their defaults.
GeneratePrompt(segs, budget, m) ==
    LET rendering == PrepareSegmentsForGpt(segs, budget, [num |-> 1, den |-> 1])
    IN  [rendering |-> rendering,
         prompt |-> IF rendering.raised THEN NoValue
                    ELSE BuildChaptersPrompt(rendering.text, [given |-> TRUE, value |-> m],
                                             DefaultMinChapterMinutes, DefaultMaxChapters)]

\* generate_chapters.py lines 236-287: main loads the transcript and calls
\* generate_chapters with the arguments of the command line; a transcript
\* without the key 'segments' ends it
ChaptersMain ==
    /\ pc = "chapters_main"
    /\ IF input_exists
          THEN /\ events' = Append(events, Event("chapters_main", 0))
               /\ pc' = "generate_chapters"
          ELSE /\ events' = events \o <<Event("chapters_main", 0), Event("report_error", 0)>>
               /\ pc' = "main_returned_1"
    /\ UNCHANGED <<feedVars, plannerVars, samplerVars, chapterVars, inputVars, splitVars,
                   procVars, input_exists, local_files>>

\* generate_chapters.py lines 167-174; a ZeroDivisionError of the sampler
\* leaves generate_chapters
GenerateBuild ==
    /\ pc = "generate_chapters"
    /\ LET built == GeneratePrompt(segments, max_chars, min_chapter_minutes)
       IN  /\ sampler' = built.rendering
           /\ segments_text' = built.rendering.text
           /\ prompt' = built.prompt
           /\ pc' = IF built.rendering.raised THEN "generate_raised" ELSE "chat_completion"
    /\ UNCHANGED <<feedVars, plannerVars, inputVars, splitVars, procVars, segments, max_chars,
                   sample_rate, actual_duration_seconds, min_chapter_minutes, max_chapters,
                   input_exists, events, local_files>>

\* generate_chapters.py lines 176-209
GenerateRespond ==
    /\ pc = "chat_completion"
    /\ \E resp \in Responses :
        /\ response' = resp
        /\ chapters' = GeneratorChapters(resp).chapters
        /\ events' = events \o ChatEvents(GeneratorChapters(resp))
    /\ pc' = "generate_returned"
    /\ UNCHANGED <<feedVars, samplerVars, chapterVars, inputVars, splitVars, procVars,
                   input_exists, local_files>>

\* generate_chapters.py lines 289-299: main reports an empty list as a
\* failure and saves any other list to the output file
ChaptersMainFinish ==
    /\ pc = "generate_returned"
    /\ Len(events) > 0
    /\ events[1].kind = "chapters_main"
    /\ IF Len(chapters.items) = 0
          THEN /\ events' = Append(events, Event("report_error", 1))
               /\ pc' = "main_returned_1"
               /\ UNCHANGED local_files
          ELSE /\ events' = Append(events, Event("write_chapters", 0))
               /\ local_files' = [local_files EXCEPT !.chapters = <<chapters>>]
               /\ pc' = "main_returned_0"
    /\ UNCHANGED <<feedVars, plannerVars, samplerVars, chapterVars, inputVars, splitVars,
                   procVars, input_exists>>

----------------------------------------------------------------------------
(* transcribe_podcast.py: process_podcast from the merge on *)

\* a time in ticks as the nearest tenth of a second, which the rendering shows
TenthsOfTicks(t) == (2 * 10 * t + TicksPerSecond) \div (2 * TicksPerSecond)

SegmentsInTenths(segs) ==
    [k \in 1..Len(segs) |->
        [start |-> TenthsOfTicks(segs[k].start), end |-> TenthsOfTicks(segs[k].end),
         text |-> segs[k].text]]

\* lines 220-259: _build_chapters_prompt; the duration is the START of the
\* last timestamp of the rendering, 3000 when there is none
TranscriberBuildChaptersPrompt(text) ==
    LET positions == TimestampPositions(text)
        last == TimestampAt(text, CHOOSE p \in positions : \A q \in positions : q <= p)
        last_timestamp == IF positions = {} THEN 3000 ELSE ParseDigits(last.start.whole)
    IN  [duration_minutes |-> last_timestamp \div 60,
         last_chapter_end |-> last_timestamp,
         segments_text |-> text]

\* lines 322-334: transcript_full.json is written
SaveTranscriptLocally ==
    /\ pc = "merged"
    /\ local_files' = [local_files EXCEPT !.transcript_full =
            <<[transcript |-> merged_transcript, chunks_processed |-> Len(chunks_data),
               updated |-> FALSE, chapters |-> ChapterList(<<>>),
               segments_saved_to_db |-> 0, db_save_successful |-> FALSE]>>]
    /\ events' = Append(events, Event("write_transcript_full", 0))
    /\ pc' = "transcript_saved"
    /\ UNCHANGED <<feedVars, plannerVars, samplerVars, chapterVars, inputVars, splitVars,
                   procVars, input_exists>>

\* an error of the chat completion call leaving generate_chapters uncaught
ProcessGenerateChapters_Uncaught ==
    /\ pc = "transcript_saved"
    /\ \E resp \in Responses :
            LET outcome == TranscriberChapters(resp)
                saved == outcome.chapters.is_list /\ Len(outcome.chapters.items) > 0
            IN  /\ response' = resp
                /\ chapters' = outcome.chapters
                /\ events' = events \o ChatEvents(outcome)
                        \o (IF saved THEN <<Event("write_chapters", 0)>> ELSE <<>>)
                /\ local_files' =
                        IF saved
                            THEN [local_files EXCEPT !.chapters = <<outcome.chapters>>]
                            ELSE local_files
                /\ pc' = IF resp.kind = "api_error" THEN "process_raised"
                         ELSE "chapters_generated"
    /\ UNCHANGED <<feedVars, samplerVars, chapterVars, inputVars, splitVars, procVars,
                   input_exists>>

\* lines 336-339 with lines 142-179: the rendering and the prompt are made
\* outside the try (a ZeroDivisionError of the sampler leaves process_podcast),
\* the chat completion is requested, and a non-empty chapter list is written
\* to chapters.json
ProcessGenerateChapters ==
    /\ pc = "transcript_saved"
    /\ LET rendering == PrepareSegmentsForGpt(SegmentsInTenths(merged_transcript.segments),
                                              DefaultMaxChars, [num |-> 1, den |-> 1])
       IN  IF rendering.raised
            THEN /\ pc' = "process_raised"
                 /\ UNCHANGED <<plannerVars, events, local_files>>
            ELSE \E resp \in Responses :
                    LET outcome == TranscriberChapters(resp)
                        saved == outcome.chapters.is_list /\ Len(outcome.chapters.items) > 0
                    IN  /\ response' = resp
                        /\ chapters' = outcome.chapters
                        /\ events' = events \o ChatEvents(outcome)
                                \o (IF saved THEN <<Event("write_chapters", 0)>> ELSE <<>>)
                        /\ local_files' =
                                IF saved
                                    THEN [local_files EXCEPT !.chapters = <<outcome.chapters>>]
                                    ELSE local_files
                        /\ pc' = "chapters_generated"
    /\ UNCHANGED <<feedVars, samplerVars, chapterVars, inputVars, splitVars, procVars,
                   input_exists>>

\* lines 341-349: chunk_transcripts.json is written
SaveChunkTranscripts ==
    /\ pc = "chapters_generated"
    /\ local_files' = [local_files EXCEPT !.chunk_transcripts = <<chunks_data>>]
    /\ events' = Append(events, Event("write_chunk_transcripts", 0))
    /\ pc' = "chunks_saved"
    /\ UNCHANGED <<feedVars, plannerVars, samplerVars, chapterVars, inputVars, splitVars,
                   procVars, input_exists>>

\* lines 351-381 with lines 115-140: the segments are inserted into the
\* remote store when there are any (a failure is caught and reported), the
\* local transcript file is read, updated and written again, and the
\* summary is printed; len(chapters) raises TypeError when chapters is None
SaveRemoteAndFinish ==
    /\ pc = "chunks_saved"
    /\ \E inserted \in BOOLEAN :
        LET count == Len(merged_transcript.segments)
            segment_records == IF inserted THEN count ELSE 0
        IN  /\ events' = events
                    \o (IF count = 0 THEN <<>>
                        ELSE IF inserted THEN <<Event("insert", count)>>
                        ELSE <<Event("insert", count), Event("report_error", 0)>>)
                    \o <<Event("write_transcript_full", 1)>>
            /\ local_files' = [local_files EXCEPT !.transcript_full =
                    <<[local_files.transcript_full[1] EXCEPT
                        !.updated = TRUE,
                        !.chapters = chapters,
                        !.segments_saved_to_db = segment_records,
                        !.db_save_successful = (segment_records > 0)]>>]
    /\ pc' = IF chapters.is_list THEN "process_done" ELSE "process_raised"
    /\ UNCHANGED <<feedVars, plannerVars, samplerVars, chapterVars, inputVars, splitVars,
                   procVars, input_exists>>

Init == InitWith(SmallInputs)

Next ==
    \/ SplitMissingInput
    \/ SplitStart
    \/ SplitChunk
    \/ SplitFinish
    \/ ProcessStart
    \/ TranscribeChunk
    \/ MergeChunks
    \/ SaveTranscriptLocally
    \/ ProcessGenerateChapters
    \/ SaveChunkTranscripts
    \/ SaveRemoteAndFinish

Spec == Init /\ [][Next]_vars

----------------------------------------------------------------------------
(* The chapter generation of either script called on a list of segments *)

\* transcribe_podcast.py lines 142-179: generate_chapters(transcript_data);
\* a ZeroDivisionError of the sampler leaves it
TranscriberGenerate ==
    /\ pc = "transcriber_generate_chapters"
    /\ LET rendering == PrepareSegmentsForGpt(segments, DefaultMaxChars, [num |-> 1, den |-> 1])
       IN  /\ sampler' = rendering
           /\ segments_text' = rendering.text
           /\ IF rendering.raised
                THEN /\ pc' = "generate_raised"
                     /\ UNCHANGED <<prompt, plannerVars, events>>
                ELSE /\ prompt' = TranscriberBuildChaptersPrompt(rendering.text)
                     /\ \E resp \in Responses :
                            /\ response' = resp
                            /\ chapters' = TranscriberChapters(resp).chapters
                            /\ events' = events \o ChatEvents(TranscriberChapters(resp))
                     /\ pc' = "transcriber_returned"
    /\ UNCHANGED <<feedVars, inputVars, splitVars, procVars, segments, max_chars, sample_rate,
                   actual_duration_seconds, min_chapter_minutes, max_chapters, input_exists,
                   local_files>>

\* the lengths, in tenths of a second, of the segments of an episode
SegmentLengths == {SegmentTenths, 6000}

\* segment lists in time order, the segments of one list equally long
GenerateSegments ==
    {[k \in 1..len |-> [start |-> (k - 1) * length, end |-> k * length,
                        text |-> <<"o", "k">>]] :
        len \in 0..MaxSegments, length \in SegmentLengths}

GenerateBudgets == {0, MaxChars, DefaultMaxChars}

\* the true duration of an episode: the end of its last segment, or later
TrueDurations(segs) ==
    IF Len(segs) = 0 THEN {0, 600}
    ELSE {segs[Len(segs)].end, segs[Len(segs)].end + 600}

InitGenerate ==
    /\ segments \in GenerateSegments
    /\ sample_rate = [num |-> 1, den |-> 1]
    /\ segments_text = NoValue
    /\ sampler = NoValue
    /\ prompt = NoValue
    /\ max_chapters = DefaultMaxChapters
    /\ \/ /\ pc = "generate_chapters"
          /\ max_chars \in GenerateBudgets
          /\ min_chapter_minutes \in 1..MaxMinChapterMinutes
          /\ actual_duration_seconds \in
                {NotGiven} \cup {[given |-> TRUE, value |-> D] : D \in TrueDurations(segments)}
          /\ input_exists = TRUE
       \/ /\ pc = "chapters_main"
          /\ max_chars \in GenerateBudgets
          /\ min_chapter_minutes \in 1..MaxMinChapterMinutes
          /\ actual_duration_seconds = NotGiven
          /\ input_exists \in BOOLEAN
       \/ /\ pc = "transcriber_generate_chapters"
          /\ max_chars = DefaultMaxChars
          /\ min_chapter_minutes = DefaultMinChapterMinutes
          /\ actual_duration_seconds = NotGiven
          /\ input_exists = TRUE
    /\ events = <<>>
    /\ local_files = NoFiles
    /\ NoPipelineRunState
    /\ NoGenerateCall
    /\ NoFeedRun

NextGenerate ==
    \/ ChaptersMain
    \/ GenerateBuild
    \/ GenerateRespond
    \/ ChaptersMainFinish
    \/ TranscriberGenerate

SpecGenerate == InitGenerate /\ [][NextGenerate]_vars

----------------------------------------------------------------------------
(* onboarding_interests/fetch_rss_feeds.py: search_itunes and main          *)
(* Delays are counted in tenths of a second.  While the feed fetcher runs,  *)
(* events holds what happened since the current input line was taken up.    *)

MaxRetries == 4
MaxLines == 3

\* line 9: the default of the parameter retries
DefaultRetries == 3

\* lines 34 and 39: (attempt + 1) * 6 seconds
BackoffSeconds == 6

\* line 145: time.sleep(1.5)
FeedDelay == 15

\* a constant wait
BackoffWait_Constant(attempt_index) == BackoffSeconds * 10

\* lines 34 and 39
BackoffWait(attempt_index) == (attempt_index + 1) * BackoffSeconds * 10

\* What one request can come to: a result with a feed URL, a result without
\* one, no result, an exception whose text holds '429', one whose text holds
\* '403' (and not '429'), and any other exception.
RequestOutcomes ==
    {"found_with_feed", "found_without_feed", "no_results",
     "error_429", "error_403", "error_other"}

\* lines 11-46: one pass of the loop
SearchAttempt ==
    /\ pc = "search_itunes"
    /\ attempt < retries
    /\ \E outcome \in RequestOutcomes :
        /\ events' =
                IF outcome \in {"error_429", "error_403"}
                    THEN events \o <<Event("request", attempt + 1), Event(outcome, attempt + 1),
                                     Event("sleep", BackoffWait(attempt))>>
                ELSE IF outcome = "error_other"
                    THEN events \o <<Event("request", attempt + 1), Event(outcome, attempt + 1),
                                     Event("report_error", attempt + 1)>>
                ELSE events \o <<Event("request", attempt + 1), Event(outcome, attempt + 1)>>
        /\ IF outcome \in {"error_429", "error_403"}
              THEN /\ attempt' = attempt + 1
                   /\ UNCHANGED <<pc, info>>
              ELSE /\ info' = IF outcome = "found_with_feed"
                                 THEN [found |-> TRUE, feed_url |-> "url"]
                              ELSE IF outcome = "found_without_feed"
                                 THEN [found |-> TRUE, feed_url |-> ""]
                              ELSE NoInfo
                   /\ pc' = "search_returned"
                   /\ UNCHANGED attempt
    /\ UNCHANGED <<plannerVars, samplerVars, chapterVars, inputVars, splitVars, procVars,
                   input_exists, local_files, retries, content, line_no, results,
                   saved_results, runs>>

\* line 47: the loop has run out
SearchExhausted ==
    /\ pc = "search_itunes"
    /\ attempt >= retries
    /\ info' = NoInfo
    /\ pc' = "search_returned"
    /\ UNCHANGED <<plannerVars, samplerVars, chapterVars, inputVars, splitVars, procVars,
                   input_exists, events, local_files, retries, attempt, content, line_no,
                   results, saved_results, runs>>

InitLookup ==
    /\ pc = "search_itunes"
    /\ retries \in 0..MaxRetries
    /\ attempt = 0
    /\ info = NoInfo
    /\ content = <<>>
    /\ line_no = 0
    /\ results = EmptyResults
    /\ saved_results = EmptyResults
    /\ runs = 0
    /\ events = <<Event("search_itunes", 0)>>
    /\ input_exists = TRUE
    /\ local_files = NoFiles
    /\ NoPipelineRunState
    /\ NoSamplerCall
    /\ NoPlannerCall
    /\ NoGenerateCall

NextLookup == SearchAttempt \/ SearchExhausted

SpecLookup == InitLookup /\ [][NextLookup]_vars /\ WF_vars(NextLookup)

\* the lines of the input file: a category header, a numbered podcast name,
\* or a line that is neither
InputLines ==
    {[kind |-> "category", text |-> "A"], [kind |-> "category", text |-> "B"],
     [kind |-> "name", text |-> "x"], [kind |-> "name", text |-> "y"],
     [kind |-> "other", text |-> ""]}

\* lines 80, 90-92: current_category once the first n lines are read
\* ("" stands for None)
RECURSIVE CurrentCategory(_, _)
CurrentCategory(lines, n) ==
    IF n = 0 THEN ""
    ELSE IF lines[n].kind = "category" THEN lines[n].text
    ELSE CurrentCategory(lines, n - 1)

\* line 108: the entries of a category that carry the name
EntriesOf(res, category, name) ==
    SelectSeq(res[category], LAMBDA p : p.original_name = name)

\* lines 109: existing and existing.get('feed_url')
HasFeed(res, category, name) ==
    LET found == EntriesOf(res, category, name)
    IN  Len(found) > 0 /\ found[1].feed_url # ""

\* a found feed is appended and the old entry is kept
WithLookup_KeepsOldEntry(res, category, name, looked_up) ==
    IF looked_up.found /\ looked_up.feed_url # ""
        THEN [res EXCEPT ![category] =
                Append(res[category],
                       [original_name |-> name, feed_url |-> looked_up.feed_url])]
    ELSE IF Len(EntriesOf(res, category, name)) = 0
        THEN [res EXCEPT ![category] =
                Append(res[category], [original_name |-> name, feed_url |-> ""])]
    ELSE res

\* lines 119-139: results after the lookup of a name has returned
WithLookup(res, category, name, looked_up) ==
    IF looked_up.found /\ looked_up.feed_url # ""
        THEN [res EXCEPT ![category] =
                Append(SelectSeq(res[category], LAMBDA p : p.original_name # name),
                       [original_name |-> name, feed_url |-> looked_up.feed_url])]
    ELSE IF Len(EntriesOf(res, category, name)) = 0
        THEN [res EXCEPT ![category] =
                Append(res[category], [original_name |-> name, feed_url |-> ""])]
    ELSE res

\* lines 64-83: the results file is loaded when it exists
FeedStart ==
    /\ pc = "fetch_main"
    /\ results' = saved_results
    /\ line_no' = 0
    /\ pc' = "feed_loop"
    /\ UNCHANGED <<plannerVars, samplerVars, chapterVars, inputVars, splitVars, procVars,
                   input_exists, events, local_files, retries, attempt, info, content,
                   saved_results, runs>>

\* lines 85-118: the next input line is taken up; a name without a feed
\* URL in the results is looked up
FeedLine ==
    /\ pc = "feed_loop"
    /\ line_no < Len(content)
    /\ LET line == content[line_no + 1]
           category == CurrentCategory(content, line_no)
       IN  IF line.kind = "category"
            THEN /\ results' =
                        [c \in DOMAIN results \cup {line.text} |->
                            IF c \in DOMAIN results THEN results[c] ELSE <<>>]
                 /\ line_no' = line_no + 1
                 /\ events' = <<>>
                 /\ UNCHANGED <<pc, retries, attempt>>
           ELSE IF line.kind = "other" \/ category = ""
            THEN /\ line_no' = line_no + 1
                 /\ events' = <<>>
                 /\ UNCHANGED <<pc, retries, attempt, results>>
           ELSE IF HasFeed(results, category, line.text)
            THEN /\ line_no' = line_no + 1
                 /\ events' = <<Event("report_cached", line_no + 1)>>
                 /\ UNCHANGED <<pc, retries, attempt, results>>
           ELSE /\ pc' = "search_itunes"
                /\ retries' = DefaultRetries
                /\ attempt' = 0
                /\ events' = <<Event("search_itunes", line_no + 1)>>
                /\ UNCHANGED <<line_no, results>>
    /\ UNCHANGED <<plannerVars, samplerVars, chapterVars, inputVars, splitVars, procVars,
                   input_exists, local_files, info, content, saved_results, runs>>

\* lines 119-145: the lookup has returned; the results are updated and
\* saved, and the delay follows
FeedAfterLookup ==
    /\ pc = "search_returned"
    /\ line_no < Len(content)
    /\ LET name == content[line_no + 1].text
           category == CurrentCategory(content, line_no)
       IN  /\ results' = WithLookup(results, category, name, info)
           /\ saved_results' = results'
    /\ events' = events \o <<Event("save_results", line_no + 1), Event("sleep", FeedDelay)>>
    /\ line_no' = line_no + 1
    /\ pc' = "feed_loop"
    /\ UNCHANGED <<plannerVars, samplerVars, chapterVars, inputVars, splitVars, procVars,
                   input_exists, local_files, retries, attempt, info, content, runs>>

\* lines 147-149: every line has been read
FeedDone ==
    /\ pc = "feed_loop"
    /\ line_no = Len(content)
    /\ pc' = "feed_done"
    /\ UNCHANGED <<plannerVars, samplerVars, chapterVars, inputVars, splitVars, procVars,
                   input_exists, events, local_files, feedVars>>

InitFeed ==
    /\ pc = "fetch_main"
    /\ content \in UNION {[1..len -> InputLines] : len \in 0..MaxLines}
    /\ retries = 0
    /\ attempt = 0
    /\ info = NoInfo
    /\ line_no = 0
    /\ results = EmptyResults
    /\ saved_results = EmptyResults
    /\ runs = 1
    /\ events = <<>>
    /\ input_exists = TRUE
    /\ local_files = NoFiles
    /\ NoPipelineRunState
    /\ NoSamplerCall
    /\ NoPlannerCall
    /\ NoGenerateCall

NextFeed ==
    \/ FeedStart
    \/ FeedLine
    \/ SearchAttempt
    \/ SearchExhausted
    \/ FeedAfterLookup
    \/ FeedDone

SpecFeed == InitFeed /\ [][NextFeed]_vars

\* The script is run again on the same input file, after the previous run
\* has ended or has been stopped between two input steps: the new process
\* holds nothing of the old one but the results file (lines 64-83).
MaxRuns == 2

FeedRestart ==
    /\ pc \in {"fetch_main", "feed_loop", "search_itunes", "search_returned", "feed_done"}
    /\ runs < MaxRuns
    /\ runs' = runs + 1
    /\ pc' = "fetch_main"
    /\ results' = EmptyResults
    /\ line_no' = 0
    /\ retries' = 0
    /\ attempt' = 0
    /\ info' = NoInfo
    /\ events' = <<>>
    /\ UNCHANGED <<plannerVars, samplerVars, chapterVars, inputVars, splitVars, procVars,
                   input_exists, local_files, content, saved_results>>

NextResume == NextFeed \/ FeedRestart

SpecResume == InitFeed /\ [][NextResume]_vars

----------------------------------------------------------------------------
(* Properties of generate_chapters *)

\* C11: when the caller gives generate_chapters the true duration D of the
\* episode, the duration written into the prompt is D (its whole minutes and
\* its whole seconds), and every other call with the same minimum chapter
\* length, whatever its segment list (ending at D or before) and its
\* character budget, requests the same ideal_chapters.
C11_CountFromTrueDuration ==
    (pc = "chat_completion" /\ actual_duration_seconds.given)
        => LET D == actual_duration_seconds.value
           IN  /\ prompt.duration_minutes = D \div 600
               /\ prompt.last_chapter_end = D \div 10
               /\ \A segs \in GenerateSegments, budget \in GenerateBudgets :
                    LET other == GeneratePrompt(segs, budget, min_chapter_minutes)
                    IN  (D \in TrueDurations(segs) /\ ~other.rendering.raised)
                            => other.prompt.ideal_chapters = prompt.ideal_chapters

\* generate_chapters is over, the chat completion made
ResponseHandled ==
    /\ pc \in {"generate_returned", "transcriber_returned", "generate_raised"}
    /\ response.kind # "none"

\* the responses that are not parseable JSON or are JSON without the key
\* 'chapters'
UnusableResponses == {"not_json", "json_not_object", "object_without_chapters"}

ErrorReported == Len(events) > 0 /\ events[Len(events)].kind = "report_error"

----------------------------------------------------------------------------
(* Properties of process_podcast *)

\* process_podcast has ended on the error of a transcription
TranscriptionFailed ==
    /\ pc = "process_raised"
    /\ Len(chunk_files) > 0
    /\ Len(chunks_data) < Len(chunk_files)

\* C13: when the transcription of a chunk has failed after the chunks
\* before it were transcribed, the transcripts of those chunks are merged
\* and the merged transcript is in transcript_full.json once process_podcast
\* has ended.
C13_PartialTranscriptsMergedAndSaved ==
    (TranscriptionFailed /\ Len(chunks_data) >= 1)
        => /\ Len(local_files.transcript_full) = 1
           /\ local_files.transcript_full[1].transcript
                = MergeTranscripts(chunks_data, overlap_seconds)

\* the places in events of the events of a kind
EventPlaces(kind) == {k \in 1..Len(events) : events[k].kind = kind}

\* every chunk file has been transcribed
AllTranscribed == Len(chunk_files) > 0 /\ Len(chunks_data) = Len(chunk_files)

\* C14: once every chunk is transcribed, (a) a remote insert is attempted
\* only after transcript_full.json (holding the merged transcript),
\* chunk_transcripts.json (holding the per-chunk transcripts) and, for a
\* non-empty chapter list, chapters.json have been written; (b) once
\* written, the local transcript stays, with the merged transcript in it;
\* (c) the run goes on from every step to its end, and it ends on an
\* exception only when the chapters of the response are not a list (or the
\* sampler divides by zero), never because the chat completion failed or
\* the remote insert failed.
C14_LocalBeforeRemote ==
    /\ \A k \in EventPlaces("insert") :
            /\ \E j \in EventPlaces("write_transcript_full") : j < k
            /\ \E j \in EventPlaces("write_chunk_transcripts") : j < k
            /\ Len(chapters.items) > 0 => \E j \in EventPlaces("write_chapters") : j < k
            /\ local_files.chunk_transcripts = <<chunks_data>>
            /\ Len(chapters.items) > 0 => local_files.chapters = <<chapters>>
    /\ (EventPlaces("write_transcript_full") # {})
            => /\ AllTranscribed
               /\ Len(local_files.transcript_full) = 1
               /\ local_files.transcript_full[1].transcript = merged_transcript
               /\ merged_transcript = MergeTranscripts(chunks_data, overlap_seconds)
    /\ (pc \in {"merged", "transcript_saved", "chapters_generated", "chunks_saved"})
            => ENABLED (SaveTranscriptLocally \/ ProcessGenerateChapters
                            \/ SaveChunkTranscripts \/ SaveRemoteAndFinish)
    /\ (pc = "process_raised" /\ AllTranscribed)
            => \/ ~chapters.is_list
               \/ PrepareSegmentsForGpt(SegmentsInTenths(merged_transcript.segments),
                                        DefaultMaxChars, [num |-> 1, den |-> 1]).raised
    /\ (pc = "process_done")
            => /\ local_files.transcript_full[1].updated
               /\ local_files.transcript_full[1].chapters = chapters

\* a run of two chunks or more that has ended although the chat completion
\* failed and the remote insert failed
C14_Witness ==
    /\ pc = "process_done"
    /\ Len(chunks_data) >= 2
    /\ response.kind = "api_error"
    /\ EventPlaces("insert") # {}
    /\ \E k \in EventPlaces("insert") : events[k + 1].kind = "report_error"
    /\ local_files.transcript_full[1].transcript = merged_transcript
    /\ ~local_files.transcript_full[1].db_save_successful

----------------------------------------------------------------------------
(* Properties of search_itunes *)

\* the places in events of a request's failure with a rate-limit or an
\* access-denied condition
RateLimitedPlaces == EventPlaces("error_429") \cup EventPlaces("error_403")

\* the places in events of a response and of any other error
FinalOutcomePlaces ==
    EventPlaces("found_with_feed") \cup EventPlaces("found_without_feed")
        \cup EventPlaces("no_results") \cup EventPlaces("error_other")

LookupBounded ==
    /\ Cardinality(EventPlaces("request")) <= retries
    /\ \A k \in EventPlaces("request") : events[k].arg \in 1..retries
    /\ \A k \in RateLimitedPlaces :
        LET a == events[k].arg
        IN  /\ events[k - 1] = Event("request", a)
            /\ events[k + 1] = Event("sleep", a * 6 * 10)
            /\ (k + 2 <= Len(events)) => events[k + 2] = Event("request", a + 1)
            /\ (pc = "search_returned" /\ a < retries) => k + 2 <= Len(events)
    /\ \A k \in FinalOutcomePlaces :
        /\ pc = "search_returned"
        /\ \A j \in EventPlaces("request") : j < k
        /\ \A j \in EventPlaces("sleep") : j < k
        /\ info.found <=> (events[k].kind \in {"found_with_feed", "found_without_feed"})

\* C15: search_itunes makes at most retries requests and returns; the a-th
\* request failing with a rate-limit (429) or access-denied (403) condition
\* is followed by a sleep of a * 6 seconds and, while a < retries, by
\* request a + 1; a response (with results or without) and any other error
\* are followed by no request and no sleep.
C15_BoundedRetries == []LookupBounded /\ <>(pc = "search_returned")

\* a lookup of three tries: two rate-limited requests, then a result
C15_Witness ==
    /\ pc = "search_returned"
    /\ retries = 3
    /\ content = <<>>
    /\ EventPlaces("error_429") # {}
    /\ EventPlaces("error_403") # {}
    /\ EventPlaces("found_with_feed") # {}
    /\ Cardinality(EventPlaces("request")) = 3
    /\ info.found

----------------------------------------------------------------------------
(* The scripts together: the pipeline, the chapter generation and the feed  *)
(* fetcher, each run on its own                                             *)

InitScripts == Init \/ InitGenerate \/ InitFeed

NextScripts == Next \/ NextGenerate \/ NextFeed

SpecScripts == InitScripts /\ [][NextScripts]_vars

\* the feed fetcher is the script that runs
FeedRuns == pc \in {"fetch_main", "feed_loop", "search_itunes", "search_returned", "feed_done"}

\* the feed fetcher is between two input lines, or done
BetweenLines == pc \in {"feed_loop", "feed_done"}

\* C16 as stated: a delay follows every transcription call of
\* process_podcast, the last one and a failed one included, and every
\* lookup of the feed fetcher.
C16_DelayAfterEveryCall ==
    /\ ~FeedRuns =>
            \A k \in EventPlaces("transcribe") :
                \E j \in EventPlaces("sleep") :
                    /\ j > k
                    /\ \A n \in EventPlaces("transcribe") : n <= k \/ n > j
    /\ (BetweenLines /\ EventPlaces("search_itunes") # {})
            => events[Len(events)] = Event("sleep", FeedDelay)

\* C16 as amended: in process_podcast a delay of one second follows a
\* transcription at once exactly when the transcription succeeded and its
\* chunk file is not the last one; a failed transcription ends the run with
\* no delay, and there is no other delay.  In the feed fetcher every
\* lookup, found or not, is followed by the saving of the results and then
\* a delay of 1.5 seconds; an input line that needs no lookup has no delay.
C16_DelayBetweenCalls ==
    /\ ~FeedRuns =>
        /\ \A k \in EventPlaces("transcribe") :
            IF k < Len(events) /\ events[k + 1].kind = "report_error"
                THEN pc = "process_raised" /\ k + 1 = Len(events)
                ELSE (events[k].arg < Len(chunk_files) - 1)
                        <=> (k < Len(events) /\ events[k + 1] = Event("sleep", 10))
        /\ \A j \in EventPlaces("sleep") : j > 1 /\ events[j - 1].kind = "transcribe"
    /\ BetweenLines =>
            IF EventPlaces("search_itunes") # {}
                THEN /\ Len(events) >= 3
                     /\ events[Len(events) - 1].kind = "save_results"
                     /\ events[Len(events)] = Event("sleep", 15)
                     /\ Cardinality({j \in EventPlaces("sleep") : events[j].arg = 15}) = 1
                ELSE EventPlaces("sleep") = {}

\* process_podcast has ended after three transcriptions or more, with one
\* delay fewer than transcriptions
C16_Witness ==
    /\ pc = "process_done"
    /\ Cardinality(EventPlaces("transcribe")) >= 3
    /\ Cardinality(EventPlaces("sleep")) = Cardinality(EventPlaces("transcribe")) - 1
    /\ events[Len(events)].kind = "write_transcript_full"

\* C17: a local precondition failure ends the operation before any
\* external call: a missing input file of split_audio (no media probe, no
\* segmentation), no chunk file in process_podcast (no transcription), an
\* empty segment list in the main of generate_chapters.py (no chat
\* completion).
C17_NoExternalCallAfterPreconditionFailure ==
    /\ (pc = "split_aborted")
            => EventPlaces("ffprobe") \cup EventPlaces("ffmpeg") = {}
    /\ (pc = "process_raised" /\ Len(chunk_files) = 0)
            => EventPlaces("transcribe") = {}
    /\ (EventPlaces("chapters_main") # {} /\ Len(segments) = 0)
            => EventPlaces("chat_completion") = {}

----------------------------------------------------------------------------
(* Further properties of split_audio and merge_transcripts *)

\* the invocations that returned 0, in the order they were made
SuccessfulInvocations == SelectSeq(invocations, LAMBDA v : v.returncode = 0)

\* C18: the media segmentation is invoked exactly once for every chunk of
\* the loop so far whose duration is at least one second, in increasing
\* index order, whether earlier invocations failed or not; the returned
\* list holds exactly the chunks whose invocation succeeded, in index
\* order, each with its own index, start and duration, and the metadata
\* record holds the same chunks.
C18_OneInvocationPerAcceptedChunk ==
    (pc \in {"split_loop", "split_done"})
        => /\ [k \in 1..Len(invocations) |-> invocations[k].index] = AcceptedCandidates(i)
           /\ \A k \in 1..(Len(invocations) - 1) :
                invocations[k].index < invocations[k + 1].index
           /\ \A k \in 1..Len(invocations) :
                /\ invocations[k].ss = StartTime(invocations[k].index)
                /\ invocations[k].t = Duration(invocations[k].index)
           /\ Len(chunks) = Len(SuccessfulInvocations)
           /\ \A k \in 1..Len(chunks) :
                /\ chunks[k].index = SuccessfulInvocations[k].index
                /\ chunks[k].actual_start_time = SuccessfulInvocations[k].ss
                /\ chunks[k].duration_seconds = SuccessfulInvocations[k].t
           /\ (pc = "split_done") => (i = num_chunks /\ metadata = chunks)

\* a split in which an invocation failed and later ones succeeded
C18_Witness ==
    /\ pc = "split_done"
    /\ Len(invocations) >= 3
    /\ invocations[1].returncode # 0
    /\ Len(chunks) = Len(invocations) - 1
    /\ chunks[1].index = invocations[2].index
    /\ metadata = chunks

\* every chunk's own segments start at different times
DistinctStartsPerChunk ==
    \A p \in 1..Len(chunks_data) :
        \A a, b \in 1..Len(chunks_data[p].transcript.segments) :
            a # b => chunks_data[p].transcript.segments[a].start
                        # chunks_data[p].transcript.segments[b].start

\* C19 as stated: after a merge of chunks whose own segments start at
\* different times, no two merged segments have the same start.
C19_NoEqualStarts ==
    (pc = "merge_returned" /\ DistinctStartsPerChunk)
        => \A a, b \in 1..Len(merged_transcript.segments) :
                a # b => merged_transcript.segments[a].start
                            # merged_transcript.segments[b].start

\* C19 as amended: after such a merge two merged segments of the same chunk
\* never have the same start; merged segments with the same start come
\* from different chunks and stand in the order of their chunks.
C19_EqualStartsOnlyAcrossChunks ==
    (pc = "merge_returned" /\ DistinctStartsPerChunk)
        => \A a, b \in 1..Len(merged_transcript.segments) :
                (a < b /\ merged_transcript.segments[a].start
                            = merged_transcript.segments[b].start)
                    => Origin(merged_transcript.segments[a])[1]
                            < Origin(merged_transcript.segments[b])[1]

\* a merge of chunks with distinct starts of their own in which segments
\* of two chunks share a start
C19_Witness ==
    /\ pc = "merge_returned"
    /\ DistinctStartsPerChunk
    /\ \E p \in 1..Len(chunks_data) : Len(chunks_data[p].transcript.segments) >= 2
    /\ \E a, b \in 1..Len(merged_transcript.segments) :
            /\ a < b
            /\ merged_transcript.segments[a].start = merged_transcript.segments[b].start

\* C20 as stated: of two returned chunks with consecutive indices, chunk 0
\* included, the later starts one chunk length after the earlier.
C20_StartsAdvanceByChunkLength ==
    (pc = "split_done")
        => \A a, b \in 1..Len(chunks) :
                chunks[b].index = chunks[a].index + 1
                    => chunks[b].actual_start_time
                            = chunks[a].actual_start_time + chunk_duration_seconds

\* C20 as amended: of two returned chunks with consecutive indices i and
\* i + 1, the later starts one chunk length after the earlier when i >= 1,
\* and one chunk length less the overlap after it when i = 0.
C20_StartsAdvanceExceptAfterFirst ==
    (pc = "split_done")
        => \A a, b \in 1..Len(chunks) :
                chunks[b].index = chunks[a].index + 1
                    => chunks[b].actual_start_time
                            = chunks[a].actual_start_time + chunk_duration_seconds
                                - (IF chunks[a].index = 0 THEN overlap_seconds ELSE 0)

\* a split with an overlap that returned the chunks 0, 1 and 2
C20_Witness ==
    /\ pc = "split_done"
    /\ overlap_seconds > 0
    /\ Len(chunks) >= 3
    /\ \A k \in 1..3 : chunks[k].index = k - 1

----------------------------------------------------------------------------
(* The sampling branch of the budget sampler *)

\* C22: for every non-empty segment list and every budget, the sampler
\* returns a rendering (it does not raise), and whenever it took the sampling
\* branch the number of segments to include is at least 1.
C22_SamplerNeverDividesByZero ==
    (pc # "prepare_segments_for_gpt" /\ Len(segments) > 0)
        => /\ pc = "prepare_returned"
           /\ ~sampler.raised
           /\ sampler.sampled => sampler.segments_to_include >= 1

----------------------------------------------------------------------------
(* Offsets of the chunks that follow a failed media segmentation *)

\* the chunk indices whose media segmentation invocation failed
FailedChunks ==
    {invocations[k].index : k \in {n \in 1..Len(invocations) : invocations[n].returncode # 0}}

\* C21: when the media segmentation failed for some chunk j, process_podcast
\* gives every chunk after j the offset of its original chunk index, the
\* offset it has in a run where no chunk failed, and its surviving segments
\* are in the merged transcript shifted by that offset.
C21_OffsetsKeyedByChunkIndex ==
    (pc = "merged")
        => \A p \in 1..Len(chunks_data) :
             (\E j \in FailedChunks : j < chunks_data[p].file)
                => LET offset == ProcessStartOffset(chunks_data[p].file, overlap_seconds)
                   IN  /\ chunks_data[p].start_offset_seconds = offset
                       /\ \A seg \in Range(chunks_data[p].transcript.segments) :
                            ~InOverlapRegion(chunks_data[p].file, seg, overlap_seconds)
                                => AdjustedSegment(seg, offset)
                                      \in Range(merged_transcript.segments)

----------------------------------------------------------------------------
(* Resuming the feed fetcher from its results file *)

\* the categories and names of the input lines
FeedCategories == {"A", "B"}
FeedNames == {"x", "y"}

\* every category of res holds at most one entry per podcast name
OneEntryPerName(res) ==
    \A c \in DOMAIN res : \A name \in FeedNames : Len(EntriesOf(res, c, name)) <= 1

\* the name has a non-empty feed URL in the category c of res
FeedKnown(res, c, name) == c \in DOMAIN res /\ HasFeed(res, c, name)

\* the feed URL a name has in the category c of res
FeedOf(res, c, name) == EntriesOf(res, c, name)[1].feed_url

\* a step keeps every feed URL of res
KeepsFeeds(res, res_after) ==
    \A c \in FeedCategories : \A name \in FeedNames :
        FeedKnown(res, c, name)
            => /\ FeedKnown(res_after, c, name)
               /\ FeedOf(res_after, c, name) = FeedOf(res, c, name)

\* a lookup of the current input line is under way or has just returned
LookingUp == pc \in {"search_itunes", "search_returned"}

\* C23: over any sequence of runs on the same input, each starting from the
\* results the previous one saved, (1) every category of the results in
\* memory and of the saved results holds at most one entry per podcast name,
\* (2) no lookup is made for a name that has a non-empty feed URL in the
\* results in memory or in the saved results, (3) once the line of a lookup
\* is done the results have been saved and the saved results are the ones in
\* memory, and (4) no step takes a feed URL out of the saved results, nor,
\* within a run, out of the results in memory.
C23_ResumeSafe ==
    /\ [](/\ OneEntryPerName(results)
          /\ OneEntryPerName(saved_results)
          /\ LookingUp =>
                LET name == content[line_no + 1].text
                    category == CurrentCategory(content, line_no)
                IN  /\ ~FeedKnown(results, category, name)
                    /\ ~FeedKnown(saved_results, category, name)
          /\ (pc = "feed_loop" /\ EventPlaces("search_itunes") # {})
                => /\ EventPlaces("save_results") # {}
                   /\ \A s \in EventPlaces("search_itunes") :
                        \A w \in EventPlaces("save_results") : s < w
                   /\ saved_results = results)
    /\ [][/\ KeepsFeeds(saved_results, saved_results')
          /\ runs' = runs => KeepsFeeds(results, results')]_vars

\* the second run has passed over a name whose feed URL the first run saved
\* and has found the feed of a name the first run saved without one
C23_Witness ==
    /\ runs = 2
    /\ pc = "search_returned"
    /\ info.found /\ info.feed_url # ""
    /\ LET name == content[line_no + 1].text
           category == CurrentCategory(content, line_no)
       IN  /\ category \in DOMAIN saved_results
           /\ Len(EntriesOf(saved_results, category, name)) = 1
           /\ ~FeedKnown(saved_results, category, name)
           /\ \E other \in FeedNames \ {name} :
                /\ FeedKnown(saved_results, category, other)
                /\ \E n \in 1..line_no :
                    /\ content[n] = [kind |-> "name", text |-> other]
                    /\ CurrentCategory(content, n - 1) = category

====
